---------------------------- MODULE Spec2Model ----------------------------
(***************************************************************************)
(* Calculadora de Risco para Transplante Renal (IQR-BR), src/app.py.       *)
(*                                                                         *)
(* The scorer calcular_score_risco maps seven donor factors to a pair      *)
(* (score_percentual, fatores_risco).  The script body calls it once per   *)
(* run with the current input values, chooses a risk band from the score   *)
(* and prints the score rounded to an integer.                             *)
(*                                                                         *)
(* Units.  Python compares numbers exactly, so decimals are kept as scaled *)
(* integers: creatinina in hundredths of mg/dL (1.5 is 150), and           *)
(* tempo_isquemia in tenths of an hour (20.5 is 205).  idade is in whole   *)
(* years.  score_percentual is the rational num/den, never reduced and     *)
(* never rounded; the binary rounding of Python's float division (below    *)
(* 1e-13 here) is not modelled.                                            *)
(***************************************************************************)
EXTENDS Integers, FiniteSets, Sequences, TLC

VARIABLES
    idade,            \* value of the age input (years)
    creatinina,       \* value of the creatinine input (hundredths of mg/dL)
    tempo_isquemia,   \* value of the cold-ischemia input (tenths of an hour)
    has,              \* radio answers, "Não" or "Sim"
    dm,
    pcr,
    hcv,
    score,            \* score_percentual returned to the script: [num, den]
    fatores,          \* fatores_risco returned to the script: label -> points
    faixa,            \* banner chosen by the script
    exibido,          \* integer printed by the script, f"{score:.0f}"
    pc,               \* per session: position inside calcular_score_risco
    args,             \* per session: the seven arguments of the call
    ref,              \* per session: the dict object bound to fatores_risco
    heap,             \* dict objects: object id -> label -> points
    score_bruto,      \* per session: local score_bruto
    resultado         \* per session: the returned score_percentual

vars == << idade, creatinina, tempo_isquemia, has, dm, pcr, hcv,
           score, fatores, faixa, exibido,
           pc, args, ref, heap, score_bruto, resultado >>

ui_vars == << idade, creatinina, tempo_isquemia, has, dm, pcr, hcv,
              score, fatores, faixa, exibido >>

call_vars == << pc, args, ref, heap, score_bruto, resultado >>

----------------------------------------------------------------------------
(* Bounds of the model: the ends of the declared input domains, the number *)
(* of concurrent sessions, and the finest percentage tried on the banding. *)

IdadeMax == 120

CreatininaMax == 1500

IsquemiaMax == 720

NumSessoes == 2

DecimosMax == 1000

(* Sample points of each domain: both sides of every threshold of the tier *)
(* table, the defaults of the input widgets, the examples of the           *)
(* specification, and the ends of the domain.  The domains are those       *)
(* declared for the arguments of calcular_score_risco (age 0 to 120 years, *)
(* creatinine above 0 up to 15 mg/dL, cold ischemia 0 to 72 hours as a     *)
(* decimal).  The page's own widgets deliver a part of them: idade up to   *)
(* 100, creatinina from 0.1 to 10.0, tempo_isquemia in whole hours.  The   *)
(* function checks nothing and takes any number.                           *)
Idades == {0, 30, 39, 40, 49, 50, 55, 59, 60, 65, 99, IdadeMax}

Creatininas == {1, 100, 120, 149, 150, 250, 251, 300, CreatininaMax}

Isquemias == {0, 50, 100, 110, 119, 120, 180, 200, 205, 210, 280, 285, 290,
              300, IsquemiaMax}

Respostas == {"Não", "Sim"}

Sessoes == 1 .. NumSessoes

----------------------------------------------------------------------------
(* Dictionaries.                                                           *)

DictVazio == [k \in {} |-> 0]

Put(f, k, v) == [x \in (DOMAIN f) \cup {k} |-> IF x = k THEN v ELSE f[x]]

RECURSIVE SomaValores(_)
SomaValores(f) ==
    IF DOMAIN f = {} THEN 0
    ELSE LET k == CHOOSE x \in DOMAIN f : TRUE
         IN  f[k] + SomaValores([x \in (DOMAIN f) \ {k} |-> f[x]])

----------------------------------------------------------------------------
(* calcular_score_risco, block by block.                                   *)

pontos_idade_49_aberto(i) ==
    IF 40 <= i /\ i < 49 THEN 15
    ELSE IF 50 <= i /\ i <= 59 THEN 25
    ELSE IF i >= 60 THEN 40
    ELSE 0

pontos_idade(i) ==
    IF 40 <= i /\ i <= 49 THEN 15
    ELSE IF 50 <= i /\ i <= 59 THEN 25
    ELSE IF i >= 60 THEN 40
    ELSE 0

pontos_creatinina_topo_30(c) ==
    IF 150 <= c /\ c <= 250 THEN 20
    ELSE IF c > 250 THEN 30
    ELSE 0

pontos_creatinina(c) ==
    IF 150 <= c /\ c <= 250 THEN 20
    ELSE IF c > 250 THEN 35
    ELSE 0

pontos_isquemia(t) ==
    IF 120 <= t /\ t <= 200 THEN 15
    ELSE IF 210 <= t /\ t <= 280 THEN 25
    ELSE IF t > 280 THEN 35
    ELSE 0

pontos_has == 25

pontos_dm == 30

pontos_pcr == 15

pontos_hcv == 10

(* "if pontos_x > 0: fatores_risco[label] = pontos_x"                      *)
RegistraSempre(f, k, p) == Put(f, k, p)

RegistraSePositivo(f, k, p) == IF p > 0 THEN Put(f, k, p) ELSE f

(* "if flag: fatores_risco[label] = pontos"                                *)
RegistraSeVerdadeiro(f, k, flag, p) == IF flag THEN Put(f, k, p) ELSE f

BlocoIdade(f, a) == RegistraSePositivo(f, "Idade", pontos_idade(a.idade))

BlocoCreatinina(f, a) ==
    RegistraSePositivo(f, "Creatinina", pontos_creatinina(a.creatinina))

BlocoHas(f, a) == RegistraSeVerdadeiro(f, "Hipertensão", a.has, pontos_has)

BlocoDm(f, a) == RegistraSeVerdadeiro(f, "Diabetes", a.dm, pontos_dm)

BlocoIsquemia(f, a) ==
    RegistraSePositivo(f, "Tempo de Isquemia",
                       pontos_isquemia(a.tempo_isquemia))

BlocoPcr(f, a) == RegistraSeVerdadeiro(f, "PCR", a.pcr, pontos_pcr)

BlocoHcv(f, a) == RegistraSeVerdadeiro(f, "Hepatite C", a.hcv, pontos_hcv)

(* "pontos = 0" is assigned and never updated.                             *)
pontos == 0

SomaIgnorada(f) == pontos

(* "score_bruto = sum(fatores_risco.values())"                             *)
ScoreBruto(f) == SomaValores(f)

MaximoSemHepatite == 40 + 35 + 25 + 30 + 35 + 15

MaximoArredondado == 2 * 100

score_maximo_possivel == 190

(* "score_percentual = (score_bruto / score_maximo_possivel) * 100"        *)
ScorePercentual(bruto) ==
    [num |-> bruto * 100, den |-> score_maximo_possivel]

Argumentos(i, c, h, d, t, p, v) ==
    [idade |-> i, creatinina |-> c, has |-> h, dm |-> d,
     tempo_isquemia |-> t, pcr |-> p, hcv |-> v]

FatoresDe(a) ==
    BlocoHcv(BlocoPcr(BlocoIsquemia(BlocoDm(BlocoHas(
        BlocoCreatinina(BlocoIdade(DictVazio, a), a), a), a), a), a), a)

calcular_score_risco(a) ==
    LET f == FatoresDe(a)
    IN  << ScorePercentual(ScoreBruto(f)), f >>

----------------------------------------------------------------------------
(* The script body after the call: banding and display.                    *)

Menor(p, n) == p.num < n * p.den

MenorOuIgual(p, n) == p.num <= n * p.den

(* "if score < 30 ... elif 30 <= score < 60 ... else ..."                  *)
FaixaFechadaEmBaixo(p) ==
    IF MenorOuIgual(p, 30) THEN "RISCO BAIXO"
    ELSE IF ~Menor(p, 30) /\ Menor(p, 60) THEN "RISCO MODERADO"
    ELSE "RISCO ALTO"

Faixa(p) ==
    IF Menor(p, 30) THEN "RISCO BAIXO"
    ELSE IF ~Menor(p, 30) /\ Menor(p, 60) THEN "RISCO MODERADO"
    ELSE "RISCO ALTO"

(* f"{score:.0f}": nearest integer, a tie going to the even neighbour.     *)
Arredonda(p) ==
    LET q == p.num \div p.den
        r == p.num % p.den
    IN  IF 2 * r < p.den THEN q
        ELSE IF 2 * r > p.den THEN q + 1
        ELSE IF q % 2 = 0 THEN q ELSE q + 1

(* "has_bool = (has == 'Sim')" and the three like it.                      *)
Booleano(resposta) == (resposta = "Sim")

(* One run of the script with the given input values: the conversion of    *)
(* the radio answers, the call, the banner and the printed number.         *)
Executa(i, c, t, h, d, p, v) ==
    /\ idade' = i
    /\ creatinina' = c
    /\ tempo_isquemia' = t
    /\ has' = h
    /\ dm' = d
    /\ pcr' = p
    /\ hcv' = v
    /\ \E r \in { calcular_score_risco(
                      Argumentos(i, c, Booleano(h), Booleano(d), t,
                                 Booleano(p), Booleano(v))) } :
           /\ score' = r[1]
           /\ fatores' = r[2]
           /\ faixa' = Faixa(r[1])
           /\ exibido' = Arredonda(r[1])

(* State after the first run, with the widgets' default values:            *)
(* idade 50, creatinina 1.2, tempo_isquemia 18, every radio on "Não".      *)
ArgumentosIniciais == Argumentos(50, 120, FALSE, FALSE, 180, FALSE, FALSE)

InitUI ==
    /\ idade = 50
    /\ creatinina = 120
    /\ tempo_isquemia = 180
    /\ has = "Não"
    /\ dm = "Não"
    /\ pcr = "Não"
    /\ hcv = "Não"
    /\ score = calcular_score_risco(ArgumentosIniciais)[1]
    /\ fatores = calcular_score_risco(ArgumentosIniciais)[2]
    /\ faixa = Faixa(score)
    /\ exibido = Arredonda(score)

InitChamadas ==
    /\ pc = [s \in Sessoes |-> "ocioso"]
    /\ args = [s \in Sessoes |-> ArgumentosIniciais]
    /\ ref = [s \in Sessoes |-> 0]
    /\ heap = [o \in Sessoes |-> DictVazio]
    /\ score_bruto = [s \in Sessoes |-> 0]
    /\ resultado = [s \in Sessoes |-> ScorePercentual(0)]

Init == InitUI /\ InitChamadas

(* A change of one input reruns the script from the top.                   *)
MudaIdade ==
    \E i \in Idades :
        /\ i # idade
        /\ Executa(i, creatinina, tempo_isquemia, has, dm, pcr, hcv)
        /\ UNCHANGED call_vars

MudaCreatinina ==
    \E c \in Creatininas :
        /\ c # creatinina
        /\ Executa(idade, c, tempo_isquemia, has, dm, pcr, hcv)
        /\ UNCHANGED call_vars

MudaIsquemia ==
    \E t \in Isquemias :
        /\ t # tempo_isquemia
        /\ Executa(idade, creatinina, t, has, dm, pcr, hcv)
        /\ UNCHANGED call_vars

MudaHas ==
    \E h \in Respostas :
        /\ h # has
        /\ Executa(idade, creatinina, tempo_isquemia, h, dm, pcr, hcv)
        /\ UNCHANGED call_vars

MudaDm ==
    \E d \in Respostas :
        /\ d # dm
        /\ Executa(idade, creatinina, tempo_isquemia, has, d, pcr, hcv)
        /\ UNCHANGED call_vars

MudaPcr ==
    \E p \in Respostas :
        /\ p # pcr
        /\ Executa(idade, creatinina, tempo_isquemia, has, dm, p, hcv)
        /\ UNCHANGED call_vars

MudaHcv ==
    \E v \in Respostas :
        /\ v # hcv
        /\ Executa(idade, creatinina, tempo_isquemia, has, dm, pcr, v)
        /\ UNCHANGED call_vars

Next ==
    \/ MudaIdade
    \/ MudaCreatinina
    \/ MudaIsquemia
    \/ MudaHas
    \/ MudaDm
    \/ MudaPcr
    \/ MudaHcv

Spec == Init /\ [][Next]_vars

----------------------------------------------------------------------------
(* The banding on its own: the branch at the head of the results column    *)
(* applied to any percentage between 0 and 100, in steps of a tenth.       *)

Percentuais == { [num |-> k, den |-> 10] : k \in 0 .. DecimosMax }

Classifica ==
    \E p \in Percentuais :
        /\ score' = p
        /\ faixa' = Faixa(p)
        /\ exibido' = Arredonda(p)
        /\ UNCHANGED << idade, creatinina, tempo_isquemia, has, dm, pcr, hcv,
                        fatores >>
        /\ UNCHANGED call_vars

NextBand == Classifica

SpecBand == Init /\ [][NextBand]_vars

----------------------------------------------------------------------------
(* Concurrent sessions.  Every browser session runs the script in a thread *)
(* of its own, so calls of calcular_score_risco interleave.  A call's      *)
(* locals live in its own frame; the dict it builds is an object on the    *)
(* heap shared by all threads, reached through the local fatores_risco.    *)

Objetos == Sessoes

PerfilMinimo == Argumentos(30, 100, FALSE, FALSE, 50, FALSE, FALSE)

PerfilModerado == Argumentos(55, 120, TRUE, FALSE, 100, FALSE, FALSE)

PerfilPior == Argumentos(65, 300, TRUE, TRUE, 300, TRUE, TRUE)

Perfis == { PerfilMinimo, PerfilModerado, PerfilPior, ArgumentosIniciais }

(* One dict object for the whole module, as a global or a default argument *)
(* would be.                                                               *)
DictDoModulo == CHOOSE o \in Objetos : TRUE

(* "fatores_risco = {}": a new object, distinct from every live one.       *)
NovoDict == CHOOSE o \in Objetos : \A t \in Sessoes : ref[t] # o

Chama(s) ==
    /\ pc[s] = "ocioso"
    /\ \E a \in Perfis : args' = [args EXCEPT ![s] = a]
    /\ ref' = [ref EXCEPT ![s] = NovoDict]
    /\ heap' = [heap EXCEPT ![NovoDict] = DictVazio]
    /\ pc' = [pc EXCEPT ![s] = "idade"]
    /\ UNCHANGED << score_bruto, resultado >>
    /\ UNCHANGED ui_vars

Grava(s, para, dict) ==
    /\ heap' = [heap EXCEPT ![ref[s]] = dict]
    /\ pc' = [pc EXCEPT ![s] = para]
    /\ UNCHANGED << args, ref, score_bruto, resultado >>
    /\ UNCHANGED ui_vars

PassoIdade(s) ==
    /\ pc[s] = "idade"
    /\ Grava(s, "creatinina", BlocoIdade(heap[ref[s]], args[s]))

PassoCreatinina(s) ==
    /\ pc[s] = "creatinina"
    /\ Grava(s, "has", BlocoCreatinina(heap[ref[s]], args[s]))

PassoHas(s) ==
    /\ pc[s] = "has"
    /\ Grava(s, "dm", BlocoHas(heap[ref[s]], args[s]))

PassoDm(s) ==
    /\ pc[s] = "dm"
    /\ Grava(s, "isquemia", BlocoDm(heap[ref[s]], args[s]))

PassoIsquemia(s) ==
    /\ pc[s] = "isquemia"
    /\ Grava(s, "pcr", BlocoIsquemia(heap[ref[s]], args[s]))

PassoPcr(s) ==
    /\ pc[s] = "pcr"
    /\ Grava(s, "hcv", BlocoPcr(heap[ref[s]], args[s]))

PassoHcv(s) ==
    /\ pc[s] = "hcv"
    /\ Grava(s, "soma", BlocoHcv(heap[ref[s]], args[s]))

PassoSoma(s) ==
    /\ pc[s] = "soma"
    /\ score_bruto' = [score_bruto EXCEPT ![s] = ScoreBruto(heap[ref[s]])]
    /\ pc' = [pc EXCEPT ![s] = "normaliza"]
    /\ UNCHANGED << args, ref, heap, resultado >>
    /\ UNCHANGED ui_vars

Retorna(s) ==
    /\ pc[s] = "normaliza"
    /\ resultado' = [resultado EXCEPT ![s] = ScorePercentual(score_bruto[s])]
    /\ pc' = [pc EXCEPT ![s] = "retornado"]
    /\ UNCHANGED << args, ref, heap, score_bruto >>
    /\ UNCHANGED ui_vars

(* The caller is done with the pair; the frame and the dict are dropped.   *)
Descarta(s) ==
    /\ pc[s] = "retornado"
    /\ pc' = [pc EXCEPT ![s] = "ocioso"]
    /\ heap' = [heap EXCEPT ![ref[s]] = DictVazio]
    /\ ref' = [ref EXCEPT ![s] = 0]
    /\ score_bruto' = [score_bruto EXCEPT ![s] = 0]
    /\ resultado' = [resultado EXCEPT ![s] = ScorePercentual(0)]
    /\ args' = [args EXCEPT ![s] = ArgumentosIniciais]
    /\ UNCHANGED ui_vars

NextConc ==
    \E s \in Sessoes :
        \/ Chama(s)
        \/ PassoIdade(s)
        \/ PassoCreatinina(s)
        \/ PassoHas(s)
        \/ PassoDm(s)
        \/ PassoIsquemia(s)
        \/ PassoPcr(s)
        \/ PassoHcv(s)
        \/ PassoSoma(s)
        \/ Retorna(s)
        \/ Descarta(s)

SpecConc == Init /\ [][NextConc]_vars

----------------------------------------------------------------------------
(* Properties.                                                             *)

Pontos(f, k) == IF k \in DOMAIN f THEN f[k] ELSE 0

Rotulos == { "Idade", "Creatinina", "Hipertensão", "Diabetes",
             "Tempo de Isquemia", "PCR", "Hepatite C" }

TodosNao == has = "Não" /\ dm = "Não" /\ pcr = "Não" /\ hcv = "Não"

TodosSim == has = "Sim" /\ dm = "Sim" /\ pcr = "Sim" /\ hcv = "Sim"

(* C1: for every in-domain donor profile the returned percentage lies      *)
(* between 0 and 100, both included.                                       *)
C1_PercentualEntre0e100 ==
    /\ score.den > 0
    /\ 0 <= score.num
    /\ score.num <= 100 * score.den

C1_Witness ==
    /\ idade = 65 /\ creatinina = 300 /\ tempo_isquemia = 300 /\ TodosSim
    /\ score.num = 100 * score.den

(* C2: the returned percentage is exactly the sum of the values of the     *)
(* returned contributions map, divided by 190 and multiplied by 100.       *)
C2_PercentualEhSomaSobre190 ==
    score.num * 190 = SomaValores(fatores) * 100 * score.den

C2_Witness ==
    /\ idade = 55 /\ creatinina = 120 /\ tempo_isquemia = 100
    /\ has = "Sim" /\ dm = "Não" /\ pcr = "Não" /\ hcv = "Não"
    /\ SomaValores(fatores) = 50
    /\ score.num * 19 = 500 * score.den

(* C3: percentage = 0, an empty contributions map, and "age < 40,          *)
(* creatinine < 1.5, ischemia < 12 and the four booleans false" are three  *)
(* equivalent conditions.                                                  *)
C3_ZeroSseVazioSseTudoNoNivelZero ==
    LET zero  == score.num = 0
        vazio == DOMAIN fatores = {}
        nivel == idade < 40 /\ creatinina < 150 /\ tempo_isquemia < 120
                 /\ TodosNao
    IN  (zero <=> vazio) /\ (vazio <=> nivel)

(* C4: the contributions map has no key with value 0: its keys are among   *)
(* the seven labels, each value is one of that factor's positive tier      *)
(* points, and a false boolean or a numeric factor below its first         *)
(* threshold has no key at all.                                            *)
C4_SemChaveComZero ==
    /\ DOMAIN fatores \subseteq Rotulos
    /\ \A k \in DOMAIN fatores : fatores[k] > 0
    /\ Pontos(fatores, "Idade") \in {0, 15, 25, 40}
    /\ Pontos(fatores, "Creatinina") \in {0, 20, 35}
    /\ Pontos(fatores, "Tempo de Isquemia") \in {0, 15, 25, 35}
    /\ Pontos(fatores, "Hipertensão") \in {0, 25}
    /\ Pontos(fatores, "Diabetes") \in {0, 30}
    /\ Pontos(fatores, "PCR") \in {0, 15}
    /\ Pontos(fatores, "Hepatite C") \in {0, 10}
    /\ (idade < 40 => "Idade" \notin DOMAIN fatores)
    /\ (creatinina < 150 => "Creatinina" \notin DOMAIN fatores)
    /\ (tempo_isquemia < 120 => "Tempo de Isquemia" \notin DOMAIN fatores)
    /\ ("Hipertensão" \in DOMAIN fatores <=> has = "Sim")
    /\ ("Diabetes" \in DOMAIN fatores <=> dm = "Sim")
    /\ ("PCR" \in DOMAIN fatores <=> pcr = "Sim")
    /\ ("Hepatite C" \in DOMAIN fatores <=> hcv = "Sim")

C4_Witness ==
    /\ idade = 39 /\ creatinina = 149 /\ tempo_isquemia = 119
    /\ has = "Não" /\ dm = "Sim" /\ pcr = "Não" /\ hcv = "Não"
    /\ DOMAIN fatores = {"Diabetes"}

(* C5: each numeric factor is awarded the points of the tier table, the    *)
(* listed ends of a tier included, the first matching tier winning and no  *)
(* match giving 0: age 40-49 -> 15, 50-59 -> 25, >= 60 -> 40; creatinine   *)
(* 1.5-2.5 -> 20, > 2.5 -> 35; ischemia 12-20 -> 15, 21-28 -> 25,          *)
(* > 28 -> 35.                                                             *)
C5_TabelaDeNiveis ==
    LET pi == Pontos(fatores, "Idade")
        pk == Pontos(fatores, "Creatinina")
        pt == Pontos(fatores, "Tempo de Isquemia")
        i1 == 40 <= idade /\ idade <= 49
        i2 == 50 <= idade /\ idade <= 59
        i3 == idade >= 60
        k1 == 150 <= creatinina /\ creatinina <= 250
        k2 == creatinina > 250
        t1 == 120 <= tempo_isquemia /\ tempo_isquemia <= 200
        t2 == 210 <= tempo_isquemia /\ tempo_isquemia <= 280
        t3 == tempo_isquemia > 280
    IN  /\ (i1 => pi = 15) /\ (i2 => pi = 25) /\ (i3 => pi = 40)
        /\ (~(i1 \/ i2 \/ i3) => pi = 0)
        /\ (k1 => pk = 20) /\ (k2 => pk = 35)
        /\ (~(k1 \/ k2) => pk = 0)
        /\ (t1 => pt = 15) /\ (t2 => pt = 25) /\ (t3 => pt = 35)
        /\ (~(t1 \/ t2 \/ t3) => pt = 0)

C5_Witness ==
    /\ idade = 49 /\ creatinina = 250 /\ tempo_isquemia = 200
    /\ Pontos(fatores, "Idade") = 15
    /\ Pontos(fatores, "Creatinina") = 20
    /\ Pontos(fatores, "Tempo de Isquemia") = 15

(* C6: the band depends on the percentage alone, every percentage of       *)
(* [0,100] is in exactly one of three contiguous bands (below 30 low, from *)
(* 30 to below 60 moderate, from 60 on high), and a larger percentage      *)
(* never gets a lower band.                                                *)
Ordem(b) ==
    IF b = "RISCO BAIXO" THEN 1 ELSE IF b = "RISCO MODERADO" THEN 2 ELSE 3

C6_TresFaixas ==
    /\ faixa \in {"RISCO BAIXO", "RISCO MODERADO", "RISCO ALTO"}
    /\ (faixa = "RISCO BAIXO" <=> score.num < 30 * score.den)
    /\ (faixa = "RISCO MODERADO" <=>
            30 * score.den <= score.num /\ score.num < 60 * score.den)
    /\ (faixa = "RISCO ALTO" <=> score.num >= 60 * score.den)

C6_FaixasContiguasEMonotonas ==
    /\ []C6_TresFaixas
    /\ [][ score.num * score'.den <= score'.num * score.den
             => Ordem(faixa) <= Ordem(faixa') ]_vars

C6_Witness ==
    /\ score.num = 30 * score.den
    /\ score.den = 10
    /\ faixa = "RISCO MODERADO"

(* C7: 190 is the largest raw sum: the percentage is 100 (band high)       *)
(* exactly when every factor is in its highest tier, and no input gives a  *)
(* raw sum above 190.                                                      *)
C7_CemSseTudoNoNivelMaximo ==
    LET topo == idade >= 60 /\ creatinina > 250 /\ tempo_isquemia > 280
                /\ TodosSim
    IN  /\ (score.num = 100 * score.den <=> topo)
        /\ (topo => SomaValores(fatores) = 190 /\ faixa = "RISCO ALTO")
        /\ SomaValores(fatores) <= 190

C7_Witness ==
    /\ idade = 60 /\ creatinina = 251 /\ tempo_isquemia = 285 /\ TodosSim
    /\ SomaValores(fatores) = 190
    /\ faixa = "RISCO ALTO"

(* C8: under any interleaving of any number of evaluations, each one       *)
(* returns what its own seven arguments give when evaluated alone, and the *)
(* contributions map it builds is an object no other evaluation holds.     *)
C8_AvaliacoesIndependentes ==
    /\ \A s \in Sessoes :
           pc[s] = "retornado" =>
               << resultado[s], heap[ref[s]] >> = calcular_score_risco(args[s])
    /\ \A s, t \in Sessoes :
           (s # t /\ ref[s] # 0 /\ ref[t] # 0) => ref[s] # ref[t]

C8_Witness ==
    \E s, t \in Sessoes :
        /\ s # t
        /\ pc[s] = "retornado"
        /\ args[s] = PerfilPior
        /\ resultado[s].num = 100 * resultado[s].den
        /\ pc[t] = "isquemia"
        /\ args[t] = PerfilModerado

(* C9: with the other six inputs fixed, a larger age, creatinine or cold   *)
(* ischemia time (fractions of an hour included), or a boolean going from  *)
(* false to true, never lowers the percentage.                             *)
C9_ScoreMonotono ==
    [][ ( /\ idade' >= idade
          /\ creatinina' >= creatinina
          /\ tempo_isquemia' >= tempo_isquemia
          /\ (has = "Sim" => has' = "Sim")
          /\ (dm = "Sim" => dm' = "Sim")
          /\ (pcr = "Sim" => pcr' = "Sim")
          /\ (hcv = "Sim" => hcv' = "Sim") )
        => score.num * score'.den <= score'.num * score.den ]_vars

(* C10: every raw sum is a multiple of 5 between 0 and 190, so the         *)
(* percentage is never exactly 30 or 60, and the integer shown on the page *)
(* falls in the same band as the banner shown with it.                     *)
C10_NumeroExibidoNaFaixaDoAviso ==
    /\ SomaValores(fatores) % 5 = 0
    /\ 0 <= SomaValores(fatores) /\ SomaValores(fatores) <= 190
    /\ score.num # 30 * score.den
    /\ score.num # 60 * score.den
    /\ (exibido < 30 <=> faixa = "RISCO BAIXO")
    /\ (30 <= exibido /\ exibido < 60 <=> faixa = "RISCO MODERADO")
    /\ (exibido >= 60 <=> faixa = "RISCO ALTO")

C10_Witness ==
    /\ SomaValores(fatores) = 55
    /\ exibido = 29
    /\ faixa = "RISCO BAIXO"

=============================================================================
